---- MODULE Spec2Model ----
(***************************************************************************)
(* Model of src/event-stream/socket-server.ts: the event socket server of  *)
(* the Stacks blockchain API sidecar.  One connection carries one core     *)
(* node message; a p-queue of concurrency 1 runs handleClientMessage for   *)
(* one connection at a time; handleClientMessage reads the message from    *)
(* the socket and writes the block, the transactions (and contracts) and   *)
(* the events to the DataStore, awaiting each write.                       *)
(***************************************************************************)
EXTENDS Integers, Sequences, FiniteSets, TLC

(***************************************************************************)
(* Bounds of the model.                                                    *)
(***************************************************************************)
NumConns == 3
MaxTxs == 2
MaxEvents == 2

Conns == 1..NumConns

(***************************************************************************)
(* Program constants.                                                      *)
(***************************************************************************)
\* a queue that lets two tasks run at once
ConcurrencyTwo == 1 + 1

\* new PQueue({ concurrency: 1 })
Concurrency == 1

\* Number.parseInt of a string with no leading digit
NaN == -1

\* CoreNodeEventType members named by the switch of handleClientMessage
RecognizedEventTypes ==
    { "ContractEvent", "StxTransferEvent", "StxMintEvent", "StxBurnEvent",
      "FtTransferEvent", "FtMintEvent", "NftTransferEvent", "NftMintEvent" }

\* a tag the switch has no case for
OtherEventType == "OtherEvent"

EventTypes == RecognizedEventTypes \cup {OtherEventType}

\* TransactionPayloadTypeID members
PayloadTypeIds == { "SmartContract", "TokenTransfer" }

(***************************************************************************)
(* Conversions.                                                            *)
(***************************************************************************)
\* BigInt(s) of a decimal string, given as its sequence of digits
RECURSIVE BigInt(_)
BigInt(s) ==
    IF Len(s) = 0 THEN 0
    ELSE 10 * BigInt(SubSeq(s, 1, Len(s) - 1)) + s[Len(s)]

\* hexToBuffer(h): the bytes of a hex string, given as its sequence of
\* hex digits after the 0x prefix
hexToBuffer(h) ==
    [k \in 1..(Len(h) \div 2) |-> 16 * h[2 * k - 1] + h[2 * k]]

\* Number.parseInt(s, 10): the value of the leading digits, NaN when there
\* is none; s is a sequence of characters, the digits as 0..9 and any
\* other character as a larger number
RECURSIVE LeadingDigits(_)
LeadingDigits(s) ==
    IF Len(s) = 0 \/ s[1] \notin 0..9 THEN <<>>
    ELSE <<s[1]>> \o LeadingDigits(Tail(s))

parseInt(s) ==
    IF LeadingDigits(s) = <<>> THEN NaN ELSE BigInt(LeadingDigits(s))

(***************************************************************************)
(* Core node messages.  A message carries one of two payload catalogues    *)
(* (v), which fixes its block fields and the fields of its events; the     *)
(* payload types of its transactions and the tags of its events vary       *)
(* freely.  The k-th transaction of a block has the k-th transaction id.   *)
(***************************************************************************)
Variants == { 1, 2 }

BlockHeightOf(v) == 99 + v

TxId(k) == << "tx", k >>

\* the payload object of an event of the core node
EventPayload(v) ==
    IF v = 1
    THEN [ sender |-> "SPabc", recipient |-> "SPdef", amount |-> <<5, 0, 0>>,
           asset_identifier |-> "SPabc.foo::tok", raw_value |-> <<0, 1, 0, 0>>,
           contract_identifier |-> "SPabc.foo", topic |-> "print" ]
    ELSE [ sender |-> "SPdef", recipient |-> "SPabc", amount |-> <<7>>,
           asset_identifier |-> "SPdef.bar::nft", raw_value |-> <<>>,
           contract_identifier |-> "SPdef.bar", topic |-> "log" ]

CoreEvent(type, v) == [ type |-> type, txid |-> TxId(v), data |-> EventPayload(v) ]

CoreTx(k, typeId, v) ==
    [ txid |-> TxId(k), typeId |-> typeId,
      sender_address |-> EventPayload(v).sender,
      name |-> << "contract", k >> ]

SeqsUpTo(S, n) == UNION { [1..k -> S] : k \in 0..n }

\* the message of catalogue v with transactions of the payload types
\* typeIds and events of the tags types
CoreNodeMessage(v, typeIds, types) ==
    [ block_height |-> BlockHeightOf(v),
      block_hash |-> << "hash", v >>,
      transactions |-> [k \in 1..Len(typeIds) |-> CoreTx(k, typeIds[k], v)],
      events |-> [k \in 1..Len(types) |-> CoreEvent(types[k], v)] ]

\* every message of at most MaxTxs transactions and MaxEvents events
Messages ==
    { CoreNodeMessage(v, typeIds, types) :
        v \in Variants, typeIds \in SeqsUpTo(PayloadTypeIds, MaxTxs),
        types \in SeqsUpTo(EventTypes, MaxEvents) }

\* the messages the connections of the server specification send
QueueMessages ==
    { CoreNodeMessage(1, <<>>, <<>>),
      CoreNodeMessage(2, << "SmartContract" >>, << "StxMintEvent" >>),
      CoreNodeMessage(1, << "TokenTransfer" >>, << OtherEventType >>) }

NoMessage == CoreNodeMessage(1, <<>>, <<>>)

\* what readMessageFromStream can yield: a message, undefined, or an error
ReadResult(kind, m) == [ kind |-> kind, msg |-> m ]

ReadResults(msgs) ==
    { ReadResult("message", m) : m \in msgs }
        \cup { ReadResult("undefined", NoMessage), ReadResult("error", NoMessage) }

(***************************************************************************)
(* Parsing and the records handed to the DataStore.                        *)
(***************************************************************************)
\* parseMessageTransactions(msg): the message with one parsed transaction
\* per raw transaction, in the same order
parseMessageTransactions(m) ==
    [ block_height |-> m.block_height,
      block_hash |-> m.block_hash,
      transactions |-> m.transactions,
      parsed_transactions |->
          [k \in 1..Len(m.transactions) |->
              [ core_tx |-> [ txid |-> m.transactions[k].txid ],
                raw_tx |-> [ payload |-> [ typeId |-> m.transactions[k].typeId,
                                           name |-> m.transactions[k].name ] ],
                sender_address |-> m.transactions[k].sender_address,
                block_height |-> m.block_height ]],
      events |-> m.events ]

\* const dbBlock: DbBlock = {...}
DbBlock(parsedMsg) ==
    [ canonical |-> TRUE,
      block_hash |-> parsedMsg.block_hash,
      block_height |-> parsedMsg.block_height ]

\* createDbTxFromCoreMsg(tx)
createDbTxFromCoreMsg(tx) ==
    [ tx_id |-> tx.core_tx.txid,
      block_height |-> tx.block_height,
      canonical |-> TRUE ]

\* a contract identifier without the dot between address and name
DbSmartContractNoDot(tx, parsedMsg) ==
    [ tx_id |-> tx.core_tx.txid,
      contract_id |-> <<tx.sender_address, tx.raw_tx.payload.name>>,
      block_height |-> parsedMsg.block_height,
      canonical |-> TRUE ]

\* the argument of db.updateSmartContract
DbSmartContract(tx, parsedMsg) ==
    [ tx_id |-> tx.core_tx.txid,
      contract_id |-> <<tx.sender_address, ".", tx.raw_tx.payload.name>>,
      block_height |-> parsedMsg.block_height,
      canonical |-> TRUE ]

\* a dbEvent that counts events from 1
DbEventBaseOneBased(event, i, parsedMsg) ==
    [ event_index |-> i + 1,
      tx_id |-> event.txid,
      block_height |-> parsedMsg.block_height,
      canonical |-> TRUE ]

\* const dbEvent: DbEventBase = {...}; i is the 0-based loop index
DbEventBase(event, i, parsedMsg) ==
    [ event_index |-> i,
      tx_id |-> event.txid,
      block_height |-> parsedMsg.block_height,
      canonical |-> TRUE ]

\* r with the fields of s added ({...dbEvent, ...})
Spread(r, s) ==
    [f \in (DOMAIN r) \cup (DOMAIN s) |-> IF f \in DOMAIN s THEN s[f] ELSE r[f]]

\* case CoreNodeEventType.ContractEvent
ContractEventFields(event) ==
    [ event_type |-> "SmartContractLog",
      contract_identifier |-> event.data.contract_identifier,
      topic |-> event.data.topic,
      value |-> hexToBuffer(event.data.raw_value) ]

\* case CoreNodeEventType.StxTransferEvent
StxTransferEventFields(event) ==
    [ event_type |-> "StxAsset",
      asset_event_type_id |-> "Transfer",
      sender |-> event.data.sender,
      recipient |-> event.data.recipient,
      amount |-> BigInt(event.data.amount) ]

\* a mint case copied from the transfer case with its sender left in
StxMintEventFieldsWithSender(event) ==
    [ event_type |-> "StxAsset",
      asset_event_type_id |-> "Mint",
      sender |-> event.data.sender,
      recipient |-> event.data.recipient,
      amount |-> BigInt(event.data.amount) ]

\* case CoreNodeEventType.StxMintEvent
StxMintEventFields(event) ==
    [ event_type |-> "StxAsset",
      asset_event_type_id |-> "Mint",
      recipient |-> event.data.recipient,
      amount |-> BigInt(event.data.amount) ]

\* case CoreNodeEventType.StxBurnEvent
StxBurnEventFields(event) ==
    [ event_type |-> "StxAsset",
      asset_event_type_id |-> "Burn",
      sender |-> event.data.sender,
      amount |-> BigInt(event.data.amount) ]

\* case CoreNodeEventType.FtTransferEvent
FtTransferEventFields(event) ==
    [ event_type |-> "FungibleTokenAsset",
      asset_event_type_id |-> "Transfer",
      sender |-> event.data.sender,
      recipient |-> event.data.recipient,
      asset_identifier |-> event.data.asset_identifier,
      amount |-> BigInt(event.data.amount) ]

\* case CoreNodeEventType.FtMintEvent
FtMintEventFields(event) ==
    [ event_type |-> "FungibleTokenAsset",
      asset_event_type_id |-> "Mint",
      recipient |-> event.data.recipient,
      asset_identifier |-> event.data.asset_identifier,
      amount |-> BigInt(event.data.amount) ]

\* case CoreNodeEventType.NftTransferEvent
NftTransferEventFields(event) ==
    [ event_type |-> "NonFungibleTokenAsset",
      asset_event_type_id |-> "Transfer",
      recipient |-> event.data.recipient,
      sender |-> event.data.sender,
      asset_identifier |-> event.data.asset_identifier,
      value |-> hexToBuffer(event.data.raw_value) ]

\* case CoreNodeEventType.NftMintEvent
NftMintEventFields(event) ==
    [ event_type |-> "NonFungibleTokenAsset",
      asset_event_type_id |-> "Mint",
      recipient |-> event.data.recipient,
      asset_identifier |-> event.data.asset_identifier,
      value |-> hexToBuffer(event.data.raw_value) ]

\* the entry built by the case of the switch for event.type:
\* { ...dbEvent, <the fields of the case> }
DbEventEntry(event, dbEvent) ==
    CASE event.type = "ContractEvent" -> Spread(dbEvent, ContractEventFields(event))
      [] event.type = "StxTransferEvent" -> Spread(dbEvent, StxTransferEventFields(event))
      [] event.type = "StxMintEvent" -> Spread(dbEvent, StxMintEventFields(event))
      [] event.type = "StxBurnEvent" -> Spread(dbEvent, StxBurnEventFields(event))
      [] event.type = "FtTransferEvent" -> Spread(dbEvent, FtTransferEventFields(event))
      [] event.type = "FtMintEvent" -> Spread(dbEvent, FtMintEventFields(event))
      [] event.type = "NftTransferEvent" -> Spread(dbEvent, NftTransferEventFields(event))
      [] event.type = "NftMintEvent" -> Spread(dbEvent, NftMintEventFields(event))

\* the DataStore method the case of the switch for event.type calls
EventStoreOp(type) ==
    CASE type = "ContractEvent" -> "updateSmartContractEvent"
      [] type \in { "StxTransferEvent", "StxMintEvent", "StxBurnEvent" } -> "updateStxEvent"
      [] type \in { "FtTransferEvent", "FtMintEvent" } -> "updateFtEvent"
      [] type \in { "NftTransferEvent", "NftMintEvent" } -> "updateNftEvent"

(***************************************************************************)
(* The control flow of handleClientMessage after the message is read: the  *)
(* next suspension point (an awaited DataStore call), or its return or     *)
(* throw.  Loop indices are the 0-based indices of the code.               *)
(***************************************************************************)
NoRecord == [ canonical |-> FALSE ]

AwaitCall(pcName, i, op, rec) ==
    [ kind |-> "await", pc |-> pcName, i |-> i, op |-> op, rec |-> rec ]

Return == [ kind |-> "return", pc |-> "done", i |-> 0, op |-> "none", rec |-> NoRecord ]

Throw == [ kind |-> "throw", pc |-> "done", i |-> 0, op |-> "none", rec |-> NoRecord ]

\* a switch whose default branch stores the bare dbEvent as a contract log
EventSwitchDefaultRecord(event, i, parsedMsg) ==
    IF event.type \in RecognizedEventTypes
    THEN AwaitCall("event", i, EventStoreOp(event.type),
                   DbEventEntry(event, DbEventBase(event, i, parsedMsg)))
    ELSE AwaitCall("event", i, "updateSmartContractEvent",
                   DbEventBase(event, i, parsedMsg))

\* the switch on event.type with its default branch
EventSwitch(event, i, parsedMsg) ==
    IF event.type \in RecognizedEventTypes
    THEN AwaitCall("event", i, EventStoreOp(event.type),
                   DbEventEntry(event, DbEventBase(event, i, parsedMsg)))
    ELSE Throw

\* for (let i = 0; i < parsedMsg.events.length; i++), entered at index i
EventLoop(parsedMsg, i) ==
    IF i < Len(parsedMsg.events)
    THEN EventSwitch(parsedMsg.events[i + 1], i, parsedMsg)
    ELSE Return

\* a loop that stops one transaction early
TxLoopSkipLast(parsedMsg, i) ==
    IF i < Len(parsedMsg.transactions) - 1
    THEN AwaitCall("tx", i, "updateTx",
                   createDbTxFromCoreMsg(parsedMsg.parsed_transactions[i + 1]))
    ELSE EventLoop(parsedMsg, 0)

\* for (let i = 0; i < parsedMsg.transactions.length; i++), entered at index i
TxLoop(parsedMsg, i) ==
    IF i < Len(parsedMsg.transactions)
    THEN AwaitCall("tx", i, "updateTx",
                   createDbTxFromCoreMsg(parsedMsg.parsed_transactions[i + 1]))
    ELSE EventLoop(parsedMsg, 0)

\* if (tx.raw_tx.payload.typeId === TransactionPayloadTypeID.SmartContract)
IsSmartContract(tx) == tx.raw_tx.payload.typeId = "SmartContract"

\* a loop that never writes the contract of a deployment
AfterTxSkipContract(parsedMsg, i) == TxLoop(parsedMsg, i + 1)

\* what follows the await of db.updateTx for transaction i
AfterTx(parsedMsg, i) ==
    IF IsSmartContract(parsedMsg.parsed_transactions[i + 1])
    THEN AwaitCall("contract", i, "updateSmartContract",
                   DbSmartContract(parsedMsg.parsed_transactions[i + 1], parsedMsg))
    ELSE TxLoop(parsedMsg, i + 1)

\* what follows a DataStore call that resolved at suspension point (pcName, i)
Resume(parsedMsg, pcName, i) ==
    CASE pcName = "block" -> TxLoop(parsedMsg, 0)
      [] pcName = "tx" -> AfterTx(parsedMsg, i)
      [] pcName = "contract" -> TxLoop(parsedMsg, i + 1)
      [] pcName = "event" -> EventLoop(parsedMsg, i + 1)

\* what follows a successful read: parse, build dbBlock, await db.updateBlock
AfterRead(parsedMsg) == AwaitCall("block", 0, "updateBlock", DbBlock(parsedMsg))

(***************************************************************************)
(* State.                                                                  *)
(***************************************************************************)
VARIABLES
    server,        \* the promise of startEventSocketServer and the listener
    accepted,      \* number of connections the server has accepted
    submitted,     \* the connections in the order of processorQueue.add
    queue,         \* the tasks waiting in the PQueue, oldest first
    pendingCount,  \* the tasks the PQueue has started and not yet finished
    pc,            \* per connection: where its handleClientMessage stands
    idx,           \* per connection: the loop index i of its suspension point
    msg,           \* per connection: parsedMsg
    readKind,      \* per connection: what readMessageFromStream yielded
    store,         \* the DataStore calls in the order they were issued
    destroyed,     \* per connection: clientSocket.destroy() was called
    promise,       \* per connection: the promise of messageHandler(clientSocket, db)
    logs           \* per connection: what console.info / console.error printed

vars == << server, accepted, submitted, queue, pendingCount, pc, idx, msg,
           readKind, store, destroyed, promise, logs >>

\* a connection's handleClientMessage has been called and has not finished
InProgress(c) == pc[c] \in { "read", "block", "tx", "contract", "event" }

\* a connection's handleClientMessage is suspended on a DataStore call
Applying(c) == pc[c] \in { "block", "tx", "contract", "event" }

\* one DataStore call: who issued it, the method, its argument, its outcome
StoreCall(c, op, rec) == [ conn |-> c, op |-> op, rec |-> rec, status |-> "pending" ]

\* the index in store of the call connection c is suspended on
PendingCallOf(c) ==
    CHOOSE j \in 1..Len(store) : store[j].conn = c /\ store[j].status = "pending"

(***************************************************************************)
(* The PQueue.                                                             *)
(***************************************************************************)
\* a queue that holds one waiting task and drops what does not fit
EnqueueBounded(q, c) == IF Len(q) >= 1 THEN q ELSE Append(q, c)

\* this._queue.enqueue(run): all tasks have the default priority
Enqueue(q, c) == Append(q, c)

\* a queue that hands out the newest task first
DequeueNewest(q) == [ conn |-> q[Len(q)], rest |-> SubSeq(q, 1, Len(q) - 1) ]

\* this._queue.dequeue(): the oldest task
Dequeue(q) == [ conn |-> Head(q), rest |-> Tail(q) ]

\* _tryToStartAnother(): start one waiting task if the concurrency allows
TryToStartAnother(q, n) ==
    IF Len(q) > 0 /\ n < Concurrency
    THEN [ started |-> TRUE, conn |-> Dequeue(q).conn, queue |-> Dequeue(q).rest,
           pendingCount |-> n + 1 ]
    ELSE [ started |-> FALSE, conn |-> 0, queue |-> q, pendingCount |-> n ]

\* the positions p of the connections, with the task the queue starts, if
\* any, at its first suspension point: await readMessageFromStream
PcAfter(p, next) ==
    [d \in Conns |-> IF next.started /\ d = next.conn THEN "read" ELSE p[d]]

(***************************************************************************)
(* startEventSocketServer.                                                 *)
(***************************************************************************)
\* process.env values: the host as a string ("" when unset), the port as a
\* sequence of characters (empty when unset)
EnvHosts == { "", "127.0.0.1" }

EnvPorts == { <<>>, <<3, 7, 0, 0>>, <<0>>, <<10, 3>>, <<3, 7, 10>> }

\* an executor that checks the host only
StartServerNoPortCheck(socketHost, portEnv) ==
    /\ server = "init"
    /\ server' = IF socketHost = "" THEN "no_host" ELSE "binding"
    /\ UNCHANGED << accepted, submitted, queue, pendingCount, pc, idx, msg,
                    readKind, store, destroyed, promise, logs >>

\* the executor of the promise: create the server, check the configuration,
\* call server.listen
StartServer(socketHost, portEnv) ==
    /\ server = "init"
    /\ LET socketPort == parseInt(portEnv) IN
        server' = IF socketHost = "" THEN "no_host"
                  ELSE IF socketPort = NaN \/ socketPort = 0 THEN "no_port"
                  ELSE "binding"
    /\ UNCHANGED << accepted, submitted, queue, pendingCount, pc, idx, msg,
                    readKind, store, destroyed, promise, logs >>

\* the callback of server.listen: resolve(server)
ListenCallback ==
    /\ server = "binding"
    /\ server' = "listening"
    /\ UNCHANGED << accepted, submitted, queue, pendingCount, pc, idx, msg,
                    readKind, store, destroyed, promise, logs >>

\* server.on('error'): the listener could not be bound; reject(error)
ServerError ==
    /\ server = "binding"
    /\ server' = "listen_error"
    /\ UNCHANGED << accepted, submitted, queue, pendingCount, pc, idx, msg,
                    readKind, store, destroyed, promise, logs >>

(***************************************************************************)
(* A connection is accepted: the callback of net.createServer calls        *)
(* messageHandler, which calls processorQueue.add.                         *)
(***************************************************************************)
Accept(c) ==
    /\ server = "listening"
    /\ c = accepted + 1
    /\ c \in Conns
    /\ accepted' = c
    /\ submitted' = Append(submitted, c)
    /\ LET next == TryToStartAnother(Enqueue(queue, c), pendingCount) IN
        /\ queue' = next.queue
        /\ pendingCount' = next.pendingCount
        /\ pc' = PcAfter([pc EXCEPT ![c] = "queued"], next)
        /\ promise' = [promise EXCEPT ![c] = "pending"]
    /\ UNCHANGED << server, idx, msg, readKind, store, destroyed, logs >>

(***************************************************************************)
(* The task of connection c ends: processorQueue.add settles its promise,  *)
(* handleFn settles, the .catch of the connection callback logs a          *)
(* rejection, and the queue's _next() starts the next task.                *)
(***************************************************************************)
\* a connection callback without its .catch: a rejection is not logged
LogsAfterNoCatch(c, lines, outcome) == [logs EXCEPT ![c] = @ \cup lines]

\* the log lines of the connection when its task ends
LogsAfter(c, lines, outcome) ==
    [logs EXCEPT ![c] = @ \cup lines \cup
        (IF outcome = "rejected" THEN { "error processing socket connection" } ELSE {})]

\* a queue whose _next() is skipped when the task throws
SettleNoNextOnError(c, outcome, lines) ==
    LET next == IF outcome = "rejected"
                THEN [ started |-> FALSE, conn |-> 0, queue |-> queue,
                       pendingCount |-> pendingCount ]
                ELSE TryToStartAnother(queue, pendingCount - 1) IN
        /\ queue' = next.queue
        /\ pendingCount' = next.pendingCount
        /\ pc' = PcAfter([pc EXCEPT ![c] = "done"], next)
        /\ promise' = [promise EXCEPT ![c] = outcome]
        /\ logs' = LogsAfter(c, lines, outcome)

Settle(c, outcome, lines) ==
    LET next == TryToStartAnother(queue, pendingCount - 1) IN
        /\ queue' = next.queue
        /\ pendingCount' = next.pendingCount
        /\ pc' = PcAfter([pc EXCEPT ![c] = "done"], next)
        /\ promise' = [promise EXCEPT ![c] = outcome]
        /\ logs' = LogsAfter(c, lines, outcome)

\* the task of connection c goes on to step: it awaits a DataStore call, or
\* returns, or throws
Continue(c, step) ==
    IF step.kind = "await"
    THEN /\ pc' = [pc EXCEPT ![c] = step.pc]
         /\ idx' = [idx EXCEPT ![c] = step.i]
         /\ UNCHANGED << queue, pendingCount, promise, logs >>
    ELSE /\ Settle(c, IF step.kind = "throw" THEN "rejected" ELSE "resolved", {})
         /\ idx' = [idx EXCEPT ![c] = 0]

\* tasks that share a flag: after a failed call, whoever it was that issued
\* it, the next record is handed over as not canonical
IssueAfterSharedFailure(st, c, step) ==
    IF step.kind = "await"
    THEN Append(st, StoreCall(c, step.op,
                    IF Len(st) > 0 /\ st[Len(st)].status = "failed"
                    THEN [step.rec EXCEPT !.canonical = FALSE]
                    ELSE step.rec))
    ELSE st

\* the store with the call of step, if it is one, issued by connection c
Issue(st, c, step) ==
    IF step.kind = "await" THEN Append(st, StoreCall(c, step.op, step.rec)) ELSE st

(***************************************************************************)
(* readMessageFromStream settles for connection c.                         *)
(***************************************************************************)
\* an empty read handled by the catch block
ReadUndefinedAsError(c) ==
    /\ Settle(c, "resolved", { "error reading messages from socket" })
    /\ destroyed' = [destroyed EXCEPT ![c] = TRUE]
    /\ UNCHANGED << msg, idx, store >>

\* readResult === undefined: console.info and return
ReadUndefined(c) ==
    /\ Settle(c, "resolved", { "Empty client message" })
    /\ UNCHANGED << msg, idx, store, destroyed >>

\* catch (error): console.error, clientSocket.destroy() and return
ReadError(c) ==
    /\ Settle(c, "resolved", { "error reading messages from socket" })
    /\ destroyed' = [destroyed EXCEPT ![c] = TRUE]
    /\ UNCHANGED << msg, idx, store >>

\* msg = readResult: parse the message and start applying it
ReadMessage(c, m) ==
    LET parsedMsg == parseMessageTransactions(m) IN
        /\ msg' = [msg EXCEPT ![c] = parsedMsg]
        /\ Continue(c, AfterRead(parsedMsg))
        /\ store' = Issue(store, c, AfterRead(parsedMsg))
        /\ UNCHANGED destroyed

\* the continuation of handleClientMessage when the read yields r
ReadDone(c, r) ==
    /\ readKind' = [readKind EXCEPT ![c] = r.kind]
    /\ CASE r.kind = "undefined" -> ReadUndefined(c)
         [] r.kind = "error" -> ReadError(c)
         [] r.kind = "message" -> ReadMessage(c, r.msg)
    /\ UNCHANGED << server, accepted, submitted >>

\* msgs: the messages the connection may have sent
ReadFinish(c, msgs) ==
    /\ pc[c] = "read"
    /\ \E r \in ReadResults(msgs) : ReadDone(c, r)

(***************************************************************************)
(* The DataStore call connection c awaits settles.                         *)
(***************************************************************************)
\* a handler that goes on with the next write when a write rejects
StoreReturnIgnoringFailure(c, ok) ==
    /\ Applying(c)
    /\ LET j == PendingCallOf(c)
           settled == [store EXCEPT ![j].status = IF ok THEN "ok" ELSE "failed"]
           step == Resume(msg[c], pc[c], idx[c])
       IN /\ Continue(c, step)
          /\ store' = Issue(settled, c, step)
    /\ UNCHANGED << server, accepted, submitted, msg, readKind, destroyed >>

StoreReturn(c, ok) ==
    /\ Applying(c)
    /\ LET j == PendingCallOf(c)
           settled == [store EXCEPT ![j].status = IF ok THEN "ok" ELSE "failed"]
           step == IF ok THEN Resume(msg[c], pc[c], idx[c]) ELSE Throw
       IN /\ Continue(c, step)
          /\ store' = Issue(settled, c, step)
    /\ UNCHANGED << server, accepted, submitted, msg, readKind, destroyed >>

(***************************************************************************)
(* Specifications.                                                         *)
(***************************************************************************)
Init ==
    /\ server = "init"
    /\ accepted = 0
    /\ submitted = <<>>
    /\ queue = <<>>
    /\ pendingCount = 0
    /\ pc = [c \in Conns |-> "none"]
    /\ idx = [c \in Conns |-> 0]
    /\ msg = [c \in Conns |-> parseMessageTransactions(NoMessage)]
    /\ readKind = [c \in Conns |-> "none"]
    /\ store = <<>>
    /\ destroyed = [c \in Conns |-> FALSE]
    /\ promise = [c \in Conns |-> "none"]
    /\ logs = [c \in Conns |-> {}]

Startup ==
    \/ \E h \in EnvHosts, p \in EnvPorts : StartServer(h, p)
    \/ ListenCallback
    \/ ServerError

\* the server with NumConns connections, each sending one of QueueMessages
Next ==
    \/ Startup
    \/ \E c \in Conns : Accept(c)
    \/ \E c \in Conns : ReadFinish(c, QueueMessages)
    \/ \E c \in Conns, ok \in BOOLEAN : StoreReturn(c, ok)

Spec == Init /\ [][Next]_vars

\* the server when every DataStore call eventually returns or rejects
StoreCallsSettle == WF_vars(\E c \in Conns, ok \in BOOLEAN : StoreReturn(c, ok))

SpecStoreSettles == Spec /\ StoreCallsSettle

\* the server when, besides, every read of a socket eventually settles
ReadsSettle == WF_vars(\E c \in Conns : ReadFinish(c, QueueMessages))

SpecAllSettle == Spec /\ StoreCallsSettle /\ ReadsSettle

\* one connection, sending any of Messages
NextApply ==
    \/ Startup
    \/ Accept(1)
    \/ ReadFinish(1, Messages)
    \/ \E ok \in BOOLEAN : StoreReturn(1, ok)

SpecApply == Init /\ [][NextApply]_vars

(***************************************************************************)
(* Vocabulary of the properties.                                           *)
(***************************************************************************)
\* the DataStore calls of connection c, in the order they were issued
CallsOf(c) == SelectSeq(store, LAMBDA e : e.conn = c)

EventOps ==
    { "updateSmartContractEvent", "updateStxEvent", "updateFtEvent", "updateNftEvent" }

\* the event writes of connection c, in the order they were issued
EventCallsOf(c) == SelectSeq(store, LAMBDA e : e.conn = c /\ e.op \in EventOps)

\* the position of connection c in the order of submission to the queue
SubmitPos(c) == CHOOSE k \in 1..Len(submitted) : submitted[k] = c

\* connection c has finished and none of its DataStore calls failed
NoFailedCall(c) == \A j \in 1..Len(store) : store[j].conn = c => store[j].status # "failed"

\* the 0-based index of the first event of m whose tag is not recognized,
\* Len(m.events) when there is none
FirstUnknown(m) ==
    IF \E k \in 1..Len(m.events) : m.events[k].type \notin RecognizedEventTypes
    THEN (CHOOSE k \in 1..Len(m.events) :
            /\ m.events[k].type \notin RecognizedEventTypes
            /\ \A l \in 1..(k - 1) : m.events[l].type \in RecognizedEventTypes) - 1
    ELSE Len(m.events)

HasUnknown(m) == FirstUnknown(m) < Len(m.events)

\* the writes the specification prescribes for message m when every write
\* succeeds, as (method, subject) pairs: the block; per transaction its
\* record and, for a deployment, its contract; one write per event up to
\* the first unrecognized tag
RECURSIVE TxPlan(_, _)
TxPlan(m, k) ==
    IF k > Len(m.transactions) THEN <<>>
    ELSE << [ op |-> "updateTx", key |-> m.transactions[k].txid ] >>
         \o (IF m.transactions[k].typeId = "SmartContract"
             THEN << [ op |-> "updateSmartContract", key |-> m.transactions[k].txid ] >>
             ELSE <<>>)
         \o TxPlan(m, k + 1)

EventPlan(m) ==
    [k \in 1..FirstUnknown(m) |-> [ op |-> "event", key |-> k - 1 ]]

Plan(m) ==
    << [ op |-> "updateBlock", key |-> m.block_hash ] >> \o TxPlan(m, 1) \o EventPlan(m)

\* the (method, subject) pair of a DataStore call
PlanItem(e) ==
    CASE e.op = "updateBlock" -> [ op |-> e.op, key |-> e.rec.block_hash ]
      [] e.op \in { "updateTx", "updateSmartContract" } -> [ op |-> e.op, key |-> e.rec.tx_id ]
      [] e.op \in EventOps -> [ op |-> "event", key |-> e.rec.event_index ]

PlanOf(c) == [j \in 1..Len(CallsOf(c)) |-> PlanItem(CallsOf(c)[j])]

IsPrefix(s, t) == Len(s) <= Len(t) /\ SubSeq(t, 1, Len(s)) = s

\* connection c sent a message and every write the specification
\* prescribes for it has been issued and has succeeded
FullyApplied(c) ==
    /\ readKind[c] = "message"
    /\ PlanOf(c) = Plan(msg[c])
    /\ \A j \in 1..Len(CallsOf(c)) : CallsOf(c)[j].status = "ok"

(***************************************************************************)
(* C1.  At most one handleClientMessage invocation is in progress at any   *)
(* time, and the store never receives a write of a later connection while  *)
(* an earlier one still has a write outstanding or is still running: of    *)
(* any two calls of different connections, the connection of the earlier   *)
(* call has finished (completed or failed) and that call has settled.      *)
(***************************************************************************)
C1_OneMessageAtATime ==
    /\ Cardinality({ c \in Conns : InProgress(c) }) <= 1
    /\ \A j, k \in 1..Len(store) :
          j < k /\ store[j].conn # store[k].conn
              => store[j].status # "pending" /\ pc[store[j].conn] = "done"

\* a connection is applying its message after another connection's writes,
\* while a third waits in the queue
C1_Witness ==
    \E c, d, w \in Conns :
        /\ c # d
        /\ Applying(d)
        /\ pc[w] = "queued"
        /\ Len(CallsOf(c)) >= 2
        /\ Len(CallsOf(d)) >= 1

(***************************************************************************)
(* C2.  The store observes the messages in the order of their submission   *)
(* to the queue: calls of different connections appear in submission       *)
(* order, so the calls of one connection are contiguous (never             *)
(* interleaved), each connection that sent a message has exactly one       *)
(* application (one updateBlock), the others none, and an application      *)
(* none of whose writes failed consists of exactly the prescribed writes.  *)
(***************************************************************************)
C2_SubmissionOrder ==
    /\ \A j, k \in 1..Len(store) :
          j < k => SubmitPos(store[j].conn) <= SubmitPos(store[k].conn)
    /\ \A c \in Conns :
          Cardinality({ j \in 1..Len(store) :
                          store[j].conn = c /\ store[j].op = "updateBlock" })
              = IF readKind[c] = "message" THEN 1 ELSE 0
    /\ \A c \in Conns : pc[c] = "done" /\ NoFailedCall(c) /\ readKind[c] = "message"
          => PlanOf(c) = Plan(msg[c])

\* every connection sent a message, all were applied, and the last one was
\* submitted while an earlier one was still being handled
C2_Witness ==
    /\ \A c \in Conns : pc[c] = "done" /\ readKind[c] = "message"
    /\ \E j \in 1..Len(store) : store[j].conn = NumConns /\ store[j].status = "ok"
    /\ Len(CallsOf(1)) >= 2

(***************************************************************************)
(* C3.  A failed task does not stop the queue: a task is never dropped     *)
(* (an accepted connection is waiting in the queue, running or finished,   *)
(* and a finished one has been read), the queue never stalls (while a      *)
(* task waits, another is running), a connection's handler promise rejects *)
(* and is logged exactly when its own task failed, and a finished task     *)
(* whose own writes did not fail has every prescribed record applied,      *)
(* whatever happened to the tasks before it.                               *)
(***************************************************************************)
InQueue(c) == \E k \in 1..Len(queue) : queue[k] = c

OwnFailure(c) ==
    \/ ~NoFailedCall(c)
    \/ readKind[c] = "message" /\ HasUnknown(msg[c])

C3_FailureDoesNotStopQueue ==
    /\ \A c \in Conns :
          /\ c <= accepted => (InQueue(c) <=> pc[c] = "queued") /\ pc[c] # "none"
          /\ pc[c] = "done" => readKind[c] # "none"
    /\ Len(queue) > 0 => \E c \in Conns : InProgress(c)
    /\ \A c \in Conns : pc[c] = "done" =>
          /\ promise[c] = (IF OwnFailure(c) THEN "rejected" ELSE "resolved")
          /\ ("error processing socket connection" \in logs[c]) <=> OwnFailure(c)
          /\ NoFailedCall(c) /\ readKind[c] = "message" => FullyApplied(c)

\* a task failed and a task queued after it ran to completion with all of
\* its records applied
C3_Witness ==
    \E c, d \in Conns :
        /\ c < d
        /\ pc[c] = "done" /\ promise[c] = "rejected"
        /\ pc[d] = "done" /\ promise[d] = "resolved"
        /\ FullyApplied(d) /\ Len(CallsOf(d)) >= 4

(***************************************************************************)
(* C4.  The writes of a message are issued in the prescribed order (the    *)
(* block; per transaction its record, followed at once by its contract     *)
(* exactly when it is a deployment; then one write per event), and a write *)
(* is started only after the one before it has completed.                  *)
(***************************************************************************)
C4_WriteOrder ==
    \A c \in Conns :
        /\ IsPrefix(PlanOf(c), Plan(msg[c]))
        /\ \A j \in 1..(Len(CallsOf(c)) - 1) : CallsOf(c)[j].status = "ok"

\* a message with a deployment, a plain transaction and two events has
\* been applied completely
C4_Witness ==
    \E c \in Conns :
        /\ pc[c] = "done" /\ FullyApplied(c)
        /\ Len(msg[c].transactions) = 2
        /\ msg[c].transactions[1].typeId = "SmartContract"
        /\ msg[c].transactions[2].typeId = "TokenTransfer"
        /\ Len(msg[c].events) = 2
        /\ Len(CallsOf(c)) = 6

(***************************************************************************)
(* C5.  A failed DataStore call is the last call of its message: no        *)
(* further write is issued, the writes before it stay applied, and the     *)
(* failure reaches the caller (the handler promise rejects).               *)
(***************************************************************************)
C5_StoreFailureAborts ==
    \A j \in 1..Len(store) : store[j].status = "failed" =>
        LET c == store[j].conn IN
            /\ \A k \in (j + 1)..Len(store) : store[k].conn # c
            /\ \A k \in 1..(j - 1) : store[k].conn = c => store[k].status = "ok"
            /\ IsPrefix(PlanOf(c), Plan(msg[c]))
            /\ pc[c] = "done"
            /\ promise[c] = "rejected"

\* an event write failed after the block, a transaction and its contract
\* had been written
C5_Witness ==
    \E j \in 1..Len(store) :
        /\ store[j].status = "failed"
        /\ store[j].op \in EventOps
        /\ \E k \in 1..(j - 1) :
              store[k].op = "updateSmartContract" /\ store[k].status = "ok"
        /\ Len(msg[store[j].conn].events) = 2

(***************************************************************************)
(* C6.  An event with an unrecognized tag fails its message: no event      *)
(* record is written for it or for any later event, and the block, the     *)
(* transaction and contract records and the records of the events before   *)
(* it stay applied.                                                        *)
(***************************************************************************)
C6_UnknownTagFails ==
    \A c \in Conns :
        /\ \A j \in 1..Len(EventCallsOf(c)) :
              EventCallsOf(c)[j].rec.event_index < FirstUnknown(msg[c])
        /\ pc[c] = "done" /\ readKind[c] = "message" /\ HasUnknown(msg[c])
           /\ NoFailedCall(c)
              => /\ promise[c] = "rejected"
                 /\ FullyApplied(c)
                 /\ Len(EventCallsOf(c)) = FirstUnknown(msg[c])

\* a message failed on the unrecognized tag of its second event, after a
\* transaction and its first event had been written
C6_Witness ==
    \E c \in Conns :
        /\ pc[c] = "done" /\ promise[c] = "rejected" /\ NoFailedCall(c)
        /\ Len(msg[c].events) = 2
        /\ FirstUnknown(msg[c]) = 1
        /\ Len(msg[c].transactions) >= 1
        /\ Len(EventCallsOf(c)) = 1

(***************************************************************************)
(* C7.  Every event record has the variant, the sub-kind, the store        *)
(* operation and the field set the table gives for the tag of its event    *)
(* (no sender on a mint, no recipient on a burn), with the tx_id of the    *)
(* event, the block height of the message and canonical = TRUE; a message  *)
(* applied without failure has exactly one record per event.               *)
(***************************************************************************)
BaseFields == { "event_index", "tx_id", "block_height", "canonical", "event_type" }

\* the table of section 4.4
ClassTable(type) ==
    CASE type = "ContractEvent" ->
            [ op |-> "updateSmartContractEvent", variant |-> "SmartContractLog",
              sub |-> "none",
              fields |-> { "contract_identifier", "topic", "value" } ]
      [] type = "StxTransferEvent" ->
            [ op |-> "updateStxEvent", variant |-> "StxAsset", sub |-> "Transfer",
              fields |-> { "sender", "recipient", "amount" } ]
      [] type = "StxMintEvent" ->
            [ op |-> "updateStxEvent", variant |-> "StxAsset", sub |-> "Mint",
              fields |-> { "recipient", "amount" } ]
      [] type = "StxBurnEvent" ->
            [ op |-> "updateStxEvent", variant |-> "StxAsset", sub |-> "Burn",
              fields |-> { "sender", "amount" } ]
      [] type = "FtTransferEvent" ->
            [ op |-> "updateFtEvent", variant |-> "FungibleTokenAsset", sub |-> "Transfer",
              fields |-> { "sender", "recipient", "asset_identifier", "amount" } ]
      [] type = "FtMintEvent" ->
            [ op |-> "updateFtEvent", variant |-> "FungibleTokenAsset", sub |-> "Mint",
              fields |-> { "recipient", "asset_identifier", "amount" } ]
      [] type = "NftTransferEvent" ->
            [ op |-> "updateNftEvent", variant |-> "NonFungibleTokenAsset",
              sub |-> "Transfer",
              fields |-> { "sender", "recipient", "asset_identifier", "value" } ]
      [] type = "NftMintEvent" ->
            [ op |-> "updateNftEvent", variant |-> "NonFungibleTokenAsset", sub |-> "Mint",
              fields |-> { "recipient", "asset_identifier", "value" } ]

\* the sub-kind a record carries, "none" when it carries none
SubKindOf(rec) ==
    IF "asset_event_type_id" \in DOMAIN rec THEN rec.asset_event_type_id ELSE "none"

\* call e is the record the table prescribes for event ev of message m
MatchesTable(e, ev, m) ==
    /\ ev.type \in RecognizedEventTypes
    /\ e.op = ClassTable(ev.type).op
    /\ e.rec.event_type = ClassTable(ev.type).variant
    /\ SubKindOf(e.rec) = ClassTable(ev.type).sub
    /\ DOMAIN e.rec =
          BaseFields \cup ClassTable(ev.type).fields
            \cup (IF ClassTable(ev.type).sub = "none" THEN {} ELSE { "asset_event_type_id" })
    /\ e.rec.tx_id = ev.txid
    /\ e.rec.block_height = m.block_height
    /\ e.rec.canonical = TRUE

C7_Classification ==
    /\ \A j \in 1..Len(store) : store[j].op \in EventOps =>
          LET m == msg[store[j].conn]
              k == store[j].rec.event_index
          IN /\ k \in 0..(Len(m.events) - 1)
             /\ MatchesTable(store[j], m.events[k + 1], m)
    /\ \A c \in Conns : pc[c] = "done" /\ promise[c] = "resolved" /\ readKind[c] = "message"
          => \A k \in 0..(Len(msg[c].events) - 1) :
                Cardinality({ j \in 1..Len(store) :
                                /\ store[j].conn = c
                                /\ store[j].op \in EventOps
                                /\ store[j].rec.event_index = k }) = 1

\* a mint record and a burn record of one message have been written
C7_Witness ==
    \E c \in Conns :
        /\ pc[c] = "done" /\ promise[c] = "resolved"
        /\ Len(EventCallsOf(c)) = 2
        /\ msg[c].events[1].type = "StxMintEvent"
        /\ msg[c].events[2].type = "StxBurnEvent"
        /\ "sender" \notin DOMAIN EventCallsOf(c)[1].rec
        /\ "recipient" \notin DOMAIN EventCallsOf(c)[2].rec

(***************************************************************************)
(* C8.  The record written for the k-th event (0-based) of a message has   *)
(* event_index k: the j-th event write of a message is the record of its   *)
(* j-th event and carries the index j - 1, so the indices are distinct     *)
(* and increase in the order of the writes.                                *)
(***************************************************************************)
\* the tag a record's variant and sub-kind stand for
TagOfRecord(rec) ==
    CHOOSE type \in RecognizedEventTypes :
        /\ ClassTable(type).variant = rec.event_type
        /\ ClassTable(type).sub = SubKindOf(rec)

C8_EventIndex ==
    \A c \in Conns :
        /\ \A j \in 1..Len(EventCallsOf(c)) :
              /\ EventCallsOf(c)[j].rec.event_index = j - 1
              /\ j <= Len(msg[c].events)
              /\ TagOfRecord(EventCallsOf(c)[j].rec) = msg[c].events[j].type
        /\ \A j, k \in 1..Len(EventCallsOf(c)) :
              j < k => EventCallsOf(c)[j].rec.event_index < EventCallsOf(c)[k].rec.event_index

\* two events of different tags have been written, with indices 0 and 1
C8_Witness ==
    \E c \in Conns :
        /\ Len(EventCallsOf(c)) = 2
        /\ msg[c].events[1].type # msg[c].events[2].type
        /\ EventCallsOf(c)[1].rec.event_index = 0
        /\ EventCallsOf(c)[2].rec.event_index = 1
        /\ EventCallsOf(c)[2].status = "ok"

(***************************************************************************)
(* C9.  A connection whose read yields undefined makes no DataStore call,  *)
(* keeps its socket, and its handler completes normally: the promise       *)
(* resolves and nothing is logged as a processing error.                   *)
(***************************************************************************)
C9_EmptyMessage ==
    \A c \in Conns : readKind[c] = "undefined" =>
        /\ CallsOf(c) = <<>>
        /\ ~destroyed[c]
        /\ pc[c] = "done"
        /\ promise[c] = "resolved"
        /\ logs[c] = { "Empty client message" }

\* a connection read an empty message between two connections that sent
\* messages
C9_Witness ==
    \E c, d, e \in Conns :
        /\ d < c /\ c < e
        /\ readKind[c] = "undefined"
        /\ readKind[d] = "message"
        /\ readKind[e] = "message"

(***************************************************************************)
(* C10.  A connection whose read fails with a decode error does not affect *)
(* the other connections, whenever its read finishes: when a read ends in  *)
(* a decode error, no other connection's task has been kept waiting in the *)
(* queue behind it.                                                        *)
(***************************************************************************)
C10_FailedReadHoldsNoOne ==
    [][ \A c \in Conns :
          pc[c] = "read" /\ readKind'[c] = "error" => queue = <<>> ]_vars

(***************************************************************************)
(* C11.  A connection is submitted to the queue only after its message has *)
(* been framed and decoded: every connection submitted to the queue has    *)
(* been read and yielded a message, so a connection whose read yields      *)
(* nothing or fails is never submitted and never holds the queue's slot.   *)
(***************************************************************************)
Submitted(c) == \E k \in 1..Len(submitted) : submitted[k] = c

C11_SubmitAfterDecode ==
    \A c \in Conns : Submitted(c) => readKind[c] = "message"

(***************************************************************************)
(* C12.  Connections are read concurrently and only the store-mutating     *)
(* work is serialized by the queue: a task waits in the queue only while   *)
(* another task is applying its message to the store, never while another  *)
(* connection is merely being read.                                        *)
(***************************************************************************)
C12_OnlyStoreWorkSerialized ==
    \A d \in Conns : pc[d] = "queued" => \E c \in Conns : Applying(c)

\* what the code does instead: at most one connection is being read at a
\* time, and a connection is read only by the task holding the queue's slot
C12_ReadsAreSerialized ==
    /\ Cardinality({ c \in Conns : pc[c] = "read" }) <= 1
    /\ \A c \in Conns : pc[c] = "read" => pendingCount = Concurrency

(***************************************************************************)
(* C13.  An error raised while a connection is processed stays at the      *)
(* connection boundary: a rejected handler promise has been logged by the  *)
(* catch of the connection callback, a read error has been logged by the   *)
(* handler itself and does not reject, and the server keeps listening and  *)
(* accepts the next connection whatever the earlier ones did.              *)
(***************************************************************************)
C13_ErrorsStayAtBoundary ==
    /\ \A c \in Conns :
          /\ promise[c] = "rejected" =>
                pc[c] = "done" /\ "error processing socket connection" \in logs[c]
          /\ readKind[c] = "error" =>
                /\ promise[c] = "resolved"
                /\ "error reading messages from socket" \in logs[c]
    /\ accepted > 0 => server = "listening"
    /\ server = "listening" /\ accepted < NumConns => ENABLED Accept(accepted + 1)

\* the last accepted connection failed while being processed and the
\* server can accept the next one
C13_Witness ==
    \E c \in Conns :
        /\ accepted = c /\ c < NumConns
        /\ promise[c] = "rejected"
        /\ \E d \in Conns : d < c /\ readKind[d] = "error"
        /\ server = "listening"
        /\ ENABLED Accept(c + 1)

(***************************************************************************)
(* C14.  A missing listen host or port fails the startup.  As claimed:     *)
(* with the host unset or empty, or the port unset, non-numeric or 0, the  *)
(* promise rejects, server.listen is never called and no connection is     *)
(* accepted; otherwise server.listen is called, and the promise resolves   *)
(* only from the callback of server.listen.                                *)
(***************************************************************************)
ConfigRejected == { "no_host", "no_port" }

\* the port string is a decimal number: not empty, digits only
IsNumeric(portEnv) ==
    portEnv # <<>> /\ \A k \in 1..Len(portEnv) : portEnv[k] \in 0..9

\* the configuration the claim calls missing
MissingAsClaimed(socketHost, portEnv) ==
    \/ socketHost = ""
    \/ ~IsNumeric(portEnv)
    \/ \A k \in 1..Len(portEnv) : portEnv[k] = 0

\* the promise resolves only from the listen callback, nothing is accepted
\* before that, and a rejected startup stays rejected
StartupOrder ==
    /\ [](accepted > 0 => server = "listening")
    /\ [][(server \in ConfigRejected) => server' = server]_vars
    /\ [][(server' = "listening") => server \in { "binding", "listening" }]_vars

NoLeadingNumber(portEnv) ==
    \A k \in 1..Len(portEnv) :
        (\A l \in 1..k : portEnv[l] \in 0..9) => portEnv[k] = 0

Missing(socketHost, portEnv) == socketHost = "" \/ NoLeadingNumber(portEnv)

TxIdsWritten(c) ==
    { store[j].rec.tx_id : j \in { k \in 1..Len(store) :
                                     store[k].conn = c /\ store[k].op = "updateTx" } }

C15_EventTxIds ==
    \A j \in 1..Len(store) : store[j].op \in EventOps =>
        store[j].rec.tx_id \in TxIdsWritten(store[j].conn)

\* what the code guarantees instead: the tx_id of an event record is the
\* txid field of its event, whatever transactions the message carries
C15_EventTxIdCopied ==
    \A j \in 1..Len(store) : store[j].op \in EventOps =>
        store[j].rec.tx_id =
            msg[store[j].conn].events[store[j].rec.event_index + 1].txid

(***************************************************************************)
(* C16.  Provided every DataStore call eventually returns or rejects, a    *)
(* task the queue has started always ends, and every task waiting in the   *)
(* queue is eventually started.                                            *)
(***************************************************************************)
C16_DequeuedTaskTerminates ==
    \A c \in Conns :
        /\ InProgress(c) ~> pc[c] = "done"
        /\ pc[c] = "queued" ~> pc[c] # "queued"

\* the same, for the part of a task that follows its read: a task that is
\* applying its message always ends
C16_ApplyingTaskTerminates ==
    \A c \in Conns : Applying(c) ~> pc[c] = "done"

(***************************************************************************)
(* C17.  For a message applied without failure the store received exactly  *)
(* one updateBlock, one updateTx per transaction (the i-th built from the  *)
(* i-th parsed transaction, as many as there are raw transactions), one    *)
(* updateSmartContract per deployment and none for another transaction,    *)
(* and one event write per event: 1 + T + D + E writes in all.             *)
(***************************************************************************)
CallsOfOp(c, op) == SelectSeq(store, LAMBDA e : e.conn = c /\ e.op = op)

Deployments(m) ==
    { k \in 1..Len(m.transactions) : m.transactions[k].typeId = "SmartContract" }

AppliedWithoutFailure(c) ==
    pc[c] = "done" /\ readKind[c] = "message" /\ promise[c] = "resolved"

C17_WriteCounts ==
    \A c \in Conns : AppliedWithoutFailure(c) =>
        LET m == msg[c]
            T == Len(m.transactions)
            D == Cardinality(Deployments(m))
            E == Len(m.events)
        IN /\ Len(CallsOfOp(c, "updateBlock")) = 1
           /\ Len(CallsOfOp(c, "updateTx")) = T
           /\ \A k \in 1..T :
                 /\ CallsOfOp(c, "updateTx")[k].rec
                        = createDbTxFromCoreMsg(m.parsed_transactions[k])
                 /\ Cardinality({ j \in 1..Len(CallsOfOp(c, "updateSmartContract")) :
                        CallsOfOp(c, "updateSmartContract")[j].rec.tx_id
                            = m.transactions[k].txid })
                        = IF k \in Deployments(m) THEN 1 ELSE 0
           /\ Len(CallsOfOp(c, "updateSmartContract")) = D
           /\ Len(EventCallsOf(c)) = E
           /\ \A k \in 1..E : EventCallsOf(c)[k].rec.event_index = k - 1
           /\ Len(CallsOf(c)) = 1 + T + D + E

\* a message of two deployments and one event was applied without failure
C17_Witness ==
    \E c \in Conns :
        /\ AppliedWithoutFailure(c)
        /\ Len(msg[c].transactions) = 2
        /\ Cardinality(Deployments(msg[c])) = 2
        /\ Len(msg[c].events) = 1
        /\ Len(CallsOf(c)) = 6

(***************************************************************************)
(* C18.  Every contract record handed to the store belongs to a deployment *)
(* transaction of its message: its contract_id is the sender address, a    *)
(* dot and the contract name, its tx_id is the transaction's id, its       *)
(* block_height the message's, canonical is true, and the call before it   *)
(* is the updateTx of that same transaction, which has completed.  A       *)
(* message applied without failure has such a record for every deployment. *)
(***************************************************************************)
C18_ContractRecord ==
    /\ \A j \in 1..Len(store) : store[j].op = "updateSmartContract" =>
          LET c == store[j].conn
              m == msg[c]
              rec == store[j].rec
          IN /\ \E k \in Deployments(m) :
                    /\ rec.tx_id = m.transactions[k].txid
                    /\ rec.contract_id
                          = << m.transactions[k].sender_address, ".",
                               m.transactions[k].name >>
             /\ rec.block_height = m.block_height
             /\ rec.canonical = TRUE
             /\ j > 1
             /\ store[j - 1].conn = c
             /\ store[j - 1].op = "updateTx"
             /\ store[j - 1].rec.tx_id = rec.tx_id
             /\ store[j - 1].status = "ok"
    /\ \A c \in Conns : AppliedWithoutFailure(c) =>
          \A k \in Deployments(msg[c]) :
              \E j \in 1..Len(store) :
                  /\ store[j].conn = c
                  /\ store[j].op = "updateSmartContract"
                  /\ store[j].rec.tx_id = msg[c].transactions[k].txid

\* the contract of a message's second transaction has been written, after
\* a first transaction that is no deployment
C18_Witness ==
    \E j \in 1..Len(store) :
        /\ store[j].op = "updateSmartContract"
        /\ store[j].status = "ok"
        /\ store[j].rec.tx_id = TxId(2)
        /\ msg[store[j].conn].transactions[1].typeId # "SmartContract"

(***************************************************************************)
(* C19.  Every accepted connection has exactly one task: it was submitted  *)
(* once, it waits in the queue (once) exactly until it is started, it is   *)
(* started at most once and only from the queue, and once finished it      *)
(* stays finished.  No connection is dropped or refused however many       *)
(* tasks wait (a listening server can always accept), and the promise of   *)
(* the connection's handler settles exactly when its task finishes.        *)
(* (That a waiting task is eventually started is the subject of C16.)      *)
(***************************************************************************)
Settled(c) == promise[c] \in { "resolved", "rejected" }

OneTaskEach ==
    /\ Len(submitted) = accepted
    /\ \A c \in Conns :
          /\ Cardinality({ k \in 1..Len(submitted) : submitted[k] = c })
                = IF c <= accepted THEN 1 ELSE 0
          /\ Cardinality({ k \in 1..Len(queue) : queue[k] = c })
                = IF pc[c] = "queued" THEN 1 ELSE 0
          /\ c <= accepted <=> pc[c] # "none"
          /\ c <= accepted <=> promise[c] # "none"
          /\ Settled(c) <=> pc[c] = "done"
    /\ server = "listening" /\ accepted < NumConns => ENABLED Accept(accepted + 1)

RunOnce ==
    \A c \in Conns :
        /\ pc[c] = "done" => pc'[c] = "done" /\ promise'[c] = promise[c]
        /\ pc[c] = "queued" => pc'[c] \in { "queued", "read" }
        /\ pc'[c] = "read" => pc[c] \in { "queued", "read", "none" }
        /\ pc[c] = "none" /\ pc'[c] # "none" => accepted' = c
        /\ InProgress(c) => pc'[c] \notin { "none", "queued" }
        /\ Applying(c) => pc'[c] # "read"
        /\ ~Settled(c) /\ Settled(c)' => InProgress(c) /\ pc'[c] = "done"

C19_OneTaskRunOnce == []OneTaskEach /\ [][RunOnce]_vars

\* all connections but the first wait in the queue behind the first
C19_Witness ==
    /\ accepted = NumConns
    /\ Len(queue) = NumConns - 1
    /\ pc[1] = "read"
    /\ \A c \in Conns : promise[c] = "pending"

(***************************************************************************)
(* C20.  The store calls of a message depend only on the message and on    *)
(* the outcomes of its own calls: two connections that carried the same    *)
(* message issued the same calls with the same arguments as far as both    *)
(* got, whatever was queued before, between or after them; where one       *)
(* stopped earlier, its own last call failed; and with the same outcomes   *)
(* they end alike.                                                         *)
(***************************************************************************)
WritesOf(c) == [j \in 1..Len(CallsOf(c)) |-> [ op |-> CallsOf(c)[j].op, rec |-> CallsOf(c)[j].rec ]]

OutcomesOf(c) == [j \in 1..Len(CallsOf(c)) |-> CallsOf(c)[j].status]

C20_OwnContentOnly ==
    \A c, d \in Conns :
        readKind[c] = "message" /\ readKind[d] = "message" /\ msg[c] = msg[d] =>
            /\ IsPrefix(WritesOf(c), WritesOf(d)) \/ IsPrefix(WritesOf(d), WritesOf(c))
            /\ pc[c] = "done" /\ Len(CallsOf(c)) < Len(CallsOf(d))
                  => OutcomesOf(c)[Len(CallsOf(c))] = "failed"
            /\ pc[c] = "done" /\ pc[d] = "done" /\ OutcomesOf(c) = OutcomesOf(d)
                  => WritesOf(c) = WritesOf(d) /\ promise[c] = promise[d]

\* the same four-write message was applied by the first and by the last
\* connection, with a connection that failed between them
C20_Witness ==
    \E c, x, d \in Conns :
        /\ c < x /\ x < d
        /\ readKind[c] = "message" /\ readKind[d] = "message" /\ msg[c] = msg[d]
        /\ pc[c] = "done" /\ pc[d] = "done"
        /\ promise[x] = "rejected"
        /\ Len(CallsOf(c)) = 4 /\ Len(CallsOf(d)) = 4

====
